---- MODULE Spec2Model ----
(***************************************************************************)
(* A model of the task performance report of u983101/jttemp:               *)
(*   src/src/processors/taskProcessor.js   class TaskProcessor             *)
(*   src/unnamed/part_000                  utils/dateUtils.js              *)
(*   src/src/index.js                      the two report runs             *)
(*                                                                         *)
(* Representation of JavaScript values                                     *)
(*   Date | null        <<ms>> for a valid Date of ms milliseconds since   *)
(*                      the epoch, <<>> for null.  The parsers hand the    *)
(*                      processor valid Dates or null only (parseDate,     *)
(*                      extractAutoAssignment).                            *)
(*   string | undefined a sequence of tokens: <<>> is the empty string,    *)
(*          | null      <<"a@x">> an e-mail, <<"Ann", " (", "HR">> the     *)
(*                      text "Ann (HR".  The tokens " (" and ")" are the   *)
(*                      only ones holding a parenthesis.  Undefined and    *)
(*                      JsNull are the two reserved one-token values.      *)
(*   task id            a TLA+ string, "" for a falsy (missing) id.        *)
(*   Map                a sequence of [k, v] entries in insertion order.   *)
(*   ISO text           <<day, h, m, s, ms>> as written by toISOString,    *)
(*                      <<>> for the empty string.                         *)
(***************************************************************************)
EXTENDS Integers, Sequences, FiniteSets, TLC

(***************************************************************************)
(* Bounds of the model.                                                    *)
(***************************************************************************)
\* source records the six indexes hold together
MaxRecords == 3
\* records in the source array of one build call
MaxBatch == 2
\* minutes spanned by the instants handed to calculateTimeDifferenceMinutes
MaxMinute == 3

(***************************************************************************)
(* JavaScript values.                                                      *)
(***************************************************************************)
Null == <<>>
Undefined == <<"#undefined">>
JsNull == <<"#null">>
EmptyString == <<>>

\* a string (as opposed to undefined or null)
IsString(v) == v # Undefined /\ v # JsNull

\* ToBoolean of a string, undefined or null
Truthy(v) == IsString(v) /\ v # EmptyString

\* ToString inside a template literal
ToStr(v) ==
  IF v = Undefined THEN <<"undefined">>
  ELSE IF v = JsNull THEN <<"null">>
  ELSE v

Date(ms) == <<ms>>
IsDate(d) == d # Null
Ms(d) == d[1]

\* ToNumber of a Date or of null, as the relational operators apply it
ToNumber(d) == IF d = Null THEN 0 ELSE Ms(d)

(***************************************************************************)
(* Map: insertion-ordered entries, a set on an existing key keeps its     *)
(* place.                                                                  *)
(***************************************************************************)
MapHas(m, k) == \E i \in 1..Len(m) : m[i].k = k

MapIdx(m, k) == CHOOSE i \in 1..Len(m) : m[i].k = k

MapGet(m, k) == m[MapIdx(m, k)].v

MapSet(m, k, v) ==
  IF MapHas(m, k)
  THEN [m EXCEPT ![MapIdx(m, k)] = [k |-> k, v |-> v]]
  ELSE Append(m, [k |-> k, v |-> v])

MapKeys(m) == [i \in 1..Len(m) |-> m[i].k]

(***************************************************************************)
(* utils/dateUtils.js and the Date conversions the processor uses.         *)
(***************************************************************************)
MsPerSecond == 1000
MsPerMinute == 60000
MsPerHour == 3600000
MsPerDay == 86400000

\* a number of minutes, as opposed to null
Minutes(n) == <<n>>

\* a bug: Math.floor, which rounds a negative quotient away from zero
floorMinutes(number) == number \div MsPerMinute

\* moment's absFloor of number / 6e4: truncation toward zero
absFloor(number) ==
  IF number < 0 THEN 0 - ((0 - number) \div MsPerMinute)
  ELSE number \div MsPerMinute

\* Math.abs
Abs(n) == IF n < 0 THEN 0 - n ELSE n

\* moment#diff(start, 'minutes') of two valid moments
momentDiffMinutes(end, start) == absFloor(Ms(end) - Ms(start))

\* a bug: the sign of the difference is kept (no Math.abs)
signedTimeDifferenceMinutes(a, b) ==
  IF ~IsDate(a) \/ ~IsDate(b) THEN Null
  ELSE Minutes(momentDiffMinutes(b, a))

calculateTimeDifferenceMinutes(a, b) ==
  IF ~IsDate(a) \/ ~IsDate(b) THEN Null
  ELSE Minutes(Abs(momentDiffMinutes(b, a)))

\* a bug: the text is cut at the minute (seconds and milliseconds as 0)
toISOStringToMinute(d) ==
  << Ms(d) \div MsPerDay,
     (Ms(d) % MsPerDay) \div MsPerHour,
     (Ms(d) % MsPerHour) \div MsPerMinute,
     0,
     0 >>

\* Date#toISOString: the UTC calendar day (as a day number), hour, minute,
\* second and millisecond fields of the text YYYY-MM-DDTHH:mm:ss.sssZ
toISOString(d) ==
  << Ms(d) \div MsPerDay,
     (Ms(d) % MsPerDay) \div MsPerHour,
     (Ms(d) % MsPerHour) \div MsPerMinute,
     (Ms(d) % MsPerMinute) \div MsPerSecond,
     Ms(d) % MsPerSecond >>

\* new Date(text) of a text written by toISOString
newDate(text) ==
  Date(text[1] * MsPerDay + text[2] * MsPerHour + text[3] * MsPerMinute
       + text[4] * MsPerSecond + text[5])

\* date ? date.toISOString() : ''
isoOrEmpty(d) == IF IsDate(d) THEN toISOString(d) ELSE EmptyString

(***************************************************************************)
(* The six index builds.  Each takes the index as it is and the source     *)
(* array, and gives the index after the loop.                              *)
(***************************************************************************)
\* taskId -> array of the records carrying it (TaskActions and TaskHistory)
RECURSIVE appendByTaskId(_, _)
appendByTaskId(index, records) ==
  IF records = <<>> THEN index
  ELSE LET r == Head(records)
           withKey == IF MapHas(index, r.taskId) THEN index
                      ELSE MapSet(index, r.taskId, <<>>)
           next == IF r.taskId # ""
                   THEN MapSet(withKey, r.taskId,
                               Append(MapGet(withKey, r.taskId), r))
                   ELSE index
       IN appendByTaskId(next, Tail(records))

buildTaskActionIndex(index, taskActions) ==
  appendByTaskId(index, taskActions)

buildTaskHistoryIndex(index, taskHistories) ==
  appendByTaskId(index, taskHistories)

RECURSIVE buildUserIndex(_, _)
buildUserIndex(index, users) ==
  IF users = <<>> THEN index
  ELSE buildUserIndex(
         MapSet(index, Head(users).userPrincipalName, Head(users).displayName),
         Tail(users))

\* a bug: a task id that has a record keeps it (first write wins)
RECURSIVE buildAutoAssignmentIndexKeepFirst(_, _)
buildAutoAssignmentIndexKeepFirst(index, autoAssignments) ==
  IF autoAssignments = <<>> THEN index
  ELSE LET assignment == Head(autoAssignments)
       IN buildAutoAssignmentIndexKeepFirst(
            IF assignment.taskId # "" /\ ~MapHas(index, assignment.taskId)
            THEN MapSet(index, assignment.taskId, assignment)
            ELSE index,
            Tail(autoAssignments))

RECURSIVE buildAutoAssignmentIndex(_, _)
buildAutoAssignmentIndex(index, autoAssignments) ==
  IF autoAssignments = <<>> THEN index
  ELSE LET assignment == Head(autoAssignments)
       IN buildAutoAssignmentIndex(
            IF assignment.taskId # ""
            THEN MapSet(index, assignment.taskId, assignment)
            ELSE index,
            Tail(autoAssignments))

RECURSIVE buildOpenTimeIndex(_, _)
buildOpenTimeIndex(index, assignToMeData) ==
  IF assignToMeData = <<>> THEN index
  ELSE LET assignment == Head(assignToMeData)
       IN buildOpenTimeIndex(
            IF assignment.tasknum # ""
            THEN MapSet(index, assignment.tasknum, assignment.timestamp)
            ELSE index,
            Tail(assignToMeData))

RECURSIVE buildScreenOpenIndex(_, _)
buildScreenOpenIndex(index, screenOpenData) ==
  IF screenOpenData = <<>> THEN index
  ELSE LET openEvent == Head(screenOpenData)
           withKey == IF MapHas(index, openEvent.email) THEN index
                      ELSE MapSet(index, openEvent.email, <<>>)
       IN buildScreenOpenIndex(
            IF Truthy(openEvent.email)
            THEN MapSet(withKey, openEvent.email,
                        Append(MapGet(withKey, openEvent.email),
                               openEvent.timestamp))
            ELSE index,
            Tail(screenOpenData))

(***************************************************************************)
(* The processor: its six indexes, the list generateReport is filling     *)
(* (this.currentReportRecords), and what the two report calls gave back.  *)
(***************************************************************************)
VARIABLES
  taskActionIndex,       \* taskId -> array of actions
  taskHistoryIndex,      \* taskId -> array of history entries
  userIndex,             \* email -> displayName
  autoAssignmentIndex,   \* taskId -> auto assignment
  openTimeIndex,         \* taskId -> open time
  screenOpenIndex,       \* email -> array of screen open times
  currentReportRecords,  \* the array generateReport fills and returns
  reportOutcome,         \* "none", "returned" or "threw" (a TypeError)
  analysisRecords,       \* the array generateAutoTaskOpenAnalysis returned
  analysisOutcome,       \* "none" or "returned"
  startDate,             \* arguments and result of a direct call of
  endDate,               \*   calculateTimeDifferenceMinutes
  diffMinutes,
  diffCalled,
  source,                \* the source collection of the build calls under
  calls,                 \*   study, and how many of them were made
  pc,                    \* where the entry point of index.js is
  cursor,                \* the loop position inside generateReport
  reportFile,            \* task_performance_report.csv
  analysisFile           \* auto_task_open_analysis.csv

indexes == << taskActionIndex, taskHistoryIndex, userIndex,
              autoAssignmentIndex, openTimeIndex, screenOpenIndex >>
reportVars == << currentReportRecords, reportOutcome >>
analysisVars == << analysisRecords, analysisOutcome >>
timeVars == << startDate, endDate, diffMinutes, diffCalled >>
callVars == << source, calls >>
runVars == << pc, cursor, reportFile, analysisFile >>
vars == << indexes, reportVars, analysisVars, timeVars, callVars, runVars >>

(***************************************************************************)
(* Phase Resolver: the lookups of a task id against the indexes.           *)
(***************************************************************************)
\* a bug: the TaskActions index is asked first
determineModeManualFirst(taskId) ==
  IF MapHas(taskActionIndex, taskId) THEN "Manual"
  ELSE IF MapHas(autoAssignmentIndex, taskId) THEN "Auto"
  ELSE "Unknown"

determineMode(taskId) ==
  IF MapHas(autoAssignmentIndex, taskId) THEN "Auto"
  ELSE IF MapHas(taskActionIndex, taskId) THEN "Manual"
  ELSE "Unknown"

\* a bug: the matching entry with the smallest timestamp instead of the first
earliestHistoryTimestamp(histories, mcStatus, action) ==
  LET hits == { i \in 1..Len(histories) :
                  histories[i].mcStatus = mcStatus
                  /\ histories[i].action = action }
  IN IF hits = {} THEN Null
     ELSE histories[CHOOSE i \in hits : \A j \in hits :
                      ToNumber(histories[i].actionTimestamp)
                        <= ToNumber(histories[j].actionTimestamp)
                   ].actionTimestamp

\* Array#find over the history list, then ?.actionTimestamp || null
firstHistoryTimestamp(histories, mcStatus, action) ==
  LET hits == { i \in 1..Len(histories) :
                  histories[i].mcStatus = mcStatus
                  /\ histories[i].action = action }
  IN IF hits = {} THEN Null
     ELSE histories[CHOOSE i \in hits : \A j \in hits : i <= j].actionTimestamp

\* a bug: the status alone is matched, so any first entry of the list whose
\* status starts the task's life counts
getCreatedTimeAnyEntry(taskId) ==
  IF ~MapHas(taskHistoryIndex, taskId) THEN Null
  ELSE MapGet(taskHistoryIndex, taskId)[1].actionTimestamp

getCreatedTime(taskId) ==
  IF ~MapHas(taskHistoryIndex, taskId) THEN Null
  ELSE firstHistoryTimestamp(MapGet(taskHistoryIndex, taskId), "PMA", "IN")

getManualAssignedTime(taskId) ==
  IF ~MapHas(taskHistoryIndex, taskId) THEN Null
  ELSE firstHistoryTimestamp(MapGet(taskHistoryIndex, taskId), "PME", "AS")

getAutoAssignedTime(taskId) ==
  IF ~MapHas(autoAssignmentIndex, taskId) THEN Null
  ELSE MapGet(autoAssignmentIndex, taskId).timestamp

\* a bug: the history is asked first, the auto assignment as a fallback
getAssignedTimeHistoryFirst(taskId) ==
  IF IsDate(getManualAssignedTime(taskId)) THEN getManualAssignedTime(taskId)
  ELSE getAutoAssignedTime(taskId)

getAssignedTime(taskId) ==
  IF determineMode(taskId) = "Auto" THEN getAutoAssignedTime(taskId)
  ELSE getManualAssignedTime(taskId)

getMakerCompleteTime(taskId) ==
  IF ~MapHas(taskHistoryIndex, taskId) THEN Null
  ELSE firstHistoryTimestamp(MapGet(taskHistoryIndex, taskId), "PCA", "SC")

getOpenTime(taskId) ==
  IF ~MapHas(openTimeIndex, taskId) THEN Null
  ELSE MapGet(openTimeIndex, taskId)

\* Array#reduce without an initial value: the accumulator starts as the
\* first element; current < earliest compares the two as numbers
RECURSIVE reduceEarliest(_, _)
reduceEarliest(earliest, rest) ==
  IF rest = <<>> THEN earliest
  ELSE reduceEarliest(
         IF ToNumber(Head(rest)) < ToNumber(earliest) THEN Head(rest)
         ELSE earliest,
         Tail(rest))

getFirstScreenOpenTime(email) ==
  IF ~MapHas(screenOpenIndex, email) THEN Null
  ELSE LET openTimes == MapGet(screenOpenIndex, email)
       IN reduceEarliest(Head(openTimes), Tail(openTimes))

\* a bug: the events without a timestamp are left out
getScreenOpenTimesParsed(email) ==
  IF MapHas(screenOpenIndex, email)
  THEN SelectSeq(MapGet(screenOpenIndex, email), IsDate)
  ELSE <<>>

getScreenOpenTimes(email) ==
  IF MapHas(screenOpenIndex, email) THEN MapGet(screenOpenIndex, email)
  ELSE <<>>

\* a bug: the assignment is read from the history whatever the mode
calculateWaitingTimeManual(taskId) ==
  LET createdTime == getCreatedTime(taskId)
      assignedTime == getManualAssignedTime(taskId)
  IN IF ~IsDate(createdTime) \/ ~IsDate(assignedTime) THEN Null
     ELSE calculateTimeDifferenceMinutes(createdTime, assignedTime)

calculateWaitingTime(taskId) ==
  LET createdTime == getCreatedTime(taskId)
      assignedTime == getAssignedTime(taskId)
  IN IF ~IsDate(createdTime) \/ ~IsDate(assignedTime) THEN Null
     ELSE calculateTimeDifferenceMinutes(createdTime, assignedTime)

\* a bug: the task id is not compared, the first record is taken
findFirstRecord(records, taskId) ==
  IF records = <<>> THEN <<>> ELSE << records[1] >>

\* the first record of the list with that task id, <<>> when there is none
findRecordByTaskId(records, taskId) ==
  LET hits == { i \in 1..Len(records) : records[i].task = taskId }
  IN IF hits = {} THEN <<>>
     ELSE << records[CHOOSE i \in hits : \A j \in hits : i <= j] >>

calculateProductiveTime(records, taskId) ==
  LET found == findRecordByTaskId(records, taskId)
  IN IF found = <<>> THEN Null
     ELSE LET record == found[1]
              assignedTime == IF record.assignedTime # EmptyString
                              THEN newDate(record.assignedTime) ELSE Null
              makerCompleteTime == IF record.makerCompleteTime # EmptyString
                                   THEN newDate(record.makerCompleteTime)
                                   ELSE Null
          IN IF ~IsDate(assignedTime) \/ ~IsDate(makerCompleteTime) THEN Null
             ELSE calculateTimeDifferenceMinutes(assignedTime,
                                                 makerCompleteTime)

getUserDisplayName(email) ==
  LET displayName == IF MapHas(userIndex, email) THEN MapGet(userIndex, email)
                     ELSE Undefined
  IN IF Truthy(displayName)
     THEN ToStr(displayName) \o <<" (">> \o ToStr(email) \o <<")">>
     ELSE email

(***************************************************************************)
(* Report Assembler: generateReport.                                       *)
(***************************************************************************)
\* Set#add of every key, in order: a Set keeps first-insertion order
RECURSIVE addAll(_, _)
addAll(ids, keys) ==
  IF keys = <<>> THEN ids
  ELSE addAll(IF \E i \in 1..Len(ids) : ids[i] = Head(keys) THEN ids
              ELSE Append(ids, Head(keys)),
              Tail(keys))

\* a bug: the keys of the AutoAssignment index are added first
allTaskIdsAutoFirst ==
  addAll(addAll(addAll(<<>>, MapKeys(autoAssignmentIndex)),
                MapKeys(taskActionIndex)),
         MapKeys(taskHistoryIndex))

allTaskIds ==
  addAll(addAll(addAll(<<>>, MapKeys(taskActionIndex)),
                MapKeys(taskHistoryIndex)),
         MapKeys(autoAssignmentIndex))

\* the value of `user` after lines 317-327
resolveUser(taskId) ==
  IF MapHas(taskActionIndex, taskId)
     /\ Len(MapGet(taskActionIndex, taskId)) > 0
  THEN getUserDisplayName(MapGet(taskActionIndex, taskId)[1].loginEmail)
  ELSE IF MapHas(autoAssignmentIndex, taskId)
          /\ Truthy(MapGet(autoAssignmentIndex, taskId).email)
       THEN getUserDisplayName(MapGet(autoAssignmentIndex, taskId).email)
       ELSE <<"Unknown">>

\* user.match(/^(.*?) \((.*?)\)$/): the places of a " (" that the lazy first
\* group can stop at, the text ending in ")"
matchStarts(user) ==
  { i \in 1..Len(user) :
      user[i] = " (" /\ i < Len(user) /\ user[Len(user)] = ")" }

\* userName and userEmail after lines 330-343, user being a string
splitUser(user) ==
  IF user = <<"Unknown">>
  THEN [userName |-> <<"Unknown">>, userEmail |-> <<"Unknown">>]
  ELSE IF matchStarts(user) # {}
       THEN LET i == CHOOSE k \in matchStarts(user) :
                       \A j \in matchStarts(user) : k <= j
            IN [userName |-> SubSeq(user, 1, i - 1),
                userEmail |-> SubSeq(user, i + 1, Len(user) - 1)]
       ELSE [userName |-> user, userEmail |-> user]

\* user.match is called on a value that is not a string: a TypeError
draftThrows(taskId) == ~IsString(resolveUser(taskId))

\* the record pushed at lines 345-354
draftRecord(taskId) ==
  LET who == splitUser(resolveUser(taskId))
  IN [ task |-> taskId,
       userName |-> who.userName,
       userEmail |-> who.userEmail,
       mode |-> determineMode(taskId),
       createdTime |-> isoOrEmpty(getCreatedTime(taskId)),
       assignedTime |-> isoOrEmpty(getAssignedTime(taskId)),
       makerCompleteTime |-> isoOrEmpty(getMakerCompleteTime(taskId)),
       openTime |-> isoOrEmpty(getOpenTime(taskId)) ]

\* a bug: the list of the call before is kept and appended to
keptReportRecords == currentReportRecords

\* const reportRecords = [], line 292
newReportRecords == <<>>

\* first pass, lines 309-355: the records pushed, and whether it threw
RECURSIVE draftPass(_, _)
draftPass(records, taskIds) ==
  IF taskIds = <<>> THEN [records |-> records, threw |-> FALSE]
  ELSE IF draftThrows(Head(taskIds))
       THEN [records |-> records, threw |-> TRUE]
       ELSE draftPass(Append(records, draftRecord(Head(taskIds))),
                      Tail(taskIds))

\* second pass, lines 358-361.  It writes productiveTime and waitingTime
\* only, and reads neither, so each record is derived from the drafts.
derivationPass(records) ==
  [ i \in 1..Len(records) |->
      [ task |-> records[i].task,
        userName |-> records[i].userName,
        userEmail |-> records[i].userEmail,
        mode |-> records[i].mode,
        createdTime |-> records[i].createdTime,
        assignedTime |-> records[i].assignedTime,
        makerCompleteTime |-> records[i].makerCompleteTime,
        openTime |-> records[i].openTime,
        productiveTime |-> calculateProductiveTime(records, records[i].task),
        waitingTime |-> calculateWaitingTime(records[i].task) ] ]

(***************************************************************************)
(* Auxiliary Analysis Assembler: generateAutoTaskOpenAnalysis.             *)
(***************************************************************************)
analysisRecord(entry) ==
  LET assignedTime == entry.v.timestamp
      userEmail == entry.v.email
      firstScreenOpenTime == getFirstScreenOpenTime(userEmail)
  IN [ taskId |-> entry.k,
       userEmail |-> userEmail,
       userName |-> getUserDisplayName(userEmail),
       assignedTime |-> isoOrEmpty(assignedTime),
       firstScreenOpenTime |-> isoOrEmpty(firstScreenOpenTime),
       timeToOpenMinutes |->
         IF IsDate(assignedTime) /\ IsDate(firstScreenOpenTime)
            /\ ToNumber(firstScreenOpenTime) > ToNumber(assignedTime)
         THEN calculateTimeDifferenceMinutes(assignedTime,
                                             firstScreenOpenTime)
         ELSE Null,
       screenOpenCount |-> Len(getScreenOpenTimes(userEmail)),
       assignmentDate |-> IF IsDate(assignedTime)
                          THEN << toISOString(assignedTime)[1] >>
                          ELSE EmptyString ]

generateAutoTaskOpenAnalysis ==
  [ i \in 1..Len(autoAssignmentIndex) |->
      analysisRecord(autoAssignmentIndex[i]) ]

(***************************************************************************)
(* The source records the parsers hand over.  Fields the processor never  *)
(* reads (createdOn, workStatus, lastModifiedByUser, ...) are left out.    *)
(***************************************************************************)
TaskIds == {"T1", "T2"}

\* 00:01:30.000 and 00:03:20.000 on 1970-01-01: 1 minute 50 seconds apart
Instants == {Date(90000), Date(200000)}
\* what parseDate returns: a Date, or null for an unparsable text
ParsedDates == Instants \cup {Null}

Email == <<"a@x">>

\* Each source has, beside the rows of a task (or of a user), one row
\* without the key: the builds read nothing else of such a row.  The
\* history rows are those of T1; T2 is a task known from its actions, its
\* assignment or its open time only.
TaskActions ==
  [taskId : TaskIds, loginEmail : {Email, EmptyString, Undefined}]
  \cup {[taskId |-> "", loginEmail |-> Email]}

TaskHistories ==
  { [taskId |-> t, mcStatus |-> c[1], action |-> c[2], actionTimestamp |-> d] :
      t \in {"T1"},
      c \in {<<"PMA", "IN">>, <<"PME", "AS">>, <<"PCA", "SC">>, <<"PME", "RR">>},
      d \in ParsedDates }
  \cup {[taskId |-> "", mcStatus |-> "PMA", action |-> "IN",
         actionTimestamp |-> Date(90000)]}

Users ==
  [userPrincipalName : {Email},
   displayName : {<<"Ann">>, <<"Ann", " (", "HR", ")">>}]

\* extractAutoAssignment keeps a record only with a valid timestamp
AutoAssignments ==
  [taskId : TaskIds, email : {Email, JsNull}, timestamp : Instants]
  \cup {[taskId |-> "", email |-> Email, timestamp |-> Date(90000)]}

AssignToMe ==
  [tasknum : TaskIds, timestamp : {Date(90000), Null}]
  \cup {[tasknum |-> "", timestamp |-> Date(90000)]}

ScreenOpens ==
  [email : {Email}, timestamp : ParsedDates]
  \cup {[email |-> EmptyString, timestamp |-> Date(90000)]}

\* the source arrays of records of S: at most MaxBatch long, and no longer
\* than fits beside the n records held
Arrays(S, n) ==
  UNION { [1..k -> S] : k \in { j \in 1..MaxBatch : j + n <= MaxRecords } }

RECURSIVE sumLen(_)
sumLen(m) == IF m = <<>> THEN 0 ELSE Len(Head(m).v) + sumLen(Tail(m))

\* the source records the indexes hold
held ==
  sumLen(taskActionIndex) + sumLen(taskHistoryIndex) + sumLen(screenOpenIndex)
  + Len(userIndex) + Len(autoAssignmentIndex) + Len(openTimeIndex)

\* no source collection under study
NoSource == [of |-> "none", records |-> <<>>]

(***************************************************************************)
(* The run: new TaskProcessor(), the builds, then the report calls        *)
(* (index.js: generateTaskPerformanceReport, testWithSampleData,           *)
(* generateAutoTaskOpenAnalysis).                                          *)
(***************************************************************************)
Init ==
  /\ taskActionIndex = <<>>
  /\ taskHistoryIndex = <<>>
  /\ userIndex = <<>>
  /\ autoAssignmentIndex = <<>>
  /\ openTimeIndex = <<>>
  /\ screenOpenIndex = <<>>
  /\ currentReportRecords = <<>>
  /\ reportOutcome = "none"
  /\ analysisRecords = <<>>
  /\ analysisOutcome = "none"
  /\ startDate = Null
  /\ endDate = Null
  /\ diffMinutes = Null
  /\ diffCalled = FALSE
  /\ source = NoSource
  /\ calls = 0
  /\ pc = "idle"
  /\ cursor = 0
  /\ reportFile = "absent"
  /\ analysisFile = "absent"

\* the builds come before the report calls, in a process that runs the
\* processor (and not the date utility on its own)
building ==
  reportOutcome = "none" /\ analysisOutcome = "none" /\ ~diffCalled

BuildTaskActionIndex ==
  /\ building
  /\ \E taskActions \in Arrays(TaskActions, held) :
       taskActionIndex' = buildTaskActionIndex(taskActionIndex, taskActions)
  /\ UNCHANGED << taskHistoryIndex, userIndex, autoAssignmentIndex,
                  openTimeIndex, screenOpenIndex, reportVars, analysisVars,
                  timeVars, callVars, runVars >>

BuildTaskHistoryIndex ==
  /\ building
  /\ \E taskHistories \in Arrays(TaskHistories, held) :
       taskHistoryIndex' = buildTaskHistoryIndex(taskHistoryIndex, taskHistories)
  /\ UNCHANGED << taskActionIndex, userIndex, autoAssignmentIndex,
                  openTimeIndex, screenOpenIndex, reportVars, analysisVars,
                  timeVars, callVars, runVars >>

BuildUserIndex ==
  /\ building
  /\ \E users \in Arrays(Users, held) :
       userIndex' = buildUserIndex(userIndex, users)
  /\ UNCHANGED << taskActionIndex, taskHistoryIndex, autoAssignmentIndex,
                  openTimeIndex, screenOpenIndex, reportVars, analysisVars,
                  timeVars, callVars, runVars >>

BuildAutoAssignmentIndex ==
  /\ building
  /\ \E autoAssignments \in Arrays(AutoAssignments, held) :
       autoAssignmentIndex' =
         buildAutoAssignmentIndex(autoAssignmentIndex, autoAssignments)
  /\ UNCHANGED << taskActionIndex, taskHistoryIndex, userIndex,
                  openTimeIndex, screenOpenIndex, reportVars, analysisVars,
                  timeVars, callVars, runVars >>

BuildOpenTimeIndex ==
  /\ building
  /\ \E assignToMeData \in Arrays(AssignToMe, held) :
       openTimeIndex' = buildOpenTimeIndex(openTimeIndex, assignToMeData)
  /\ UNCHANGED << taskActionIndex, taskHistoryIndex, userIndex,
                  autoAssignmentIndex, screenOpenIndex, reportVars,
                  analysisVars, timeVars, callVars, runVars >>

BuildScreenOpenIndex ==
  /\ building
  /\ \E screenOpenData \in Arrays(ScreenOpens, held) :
       screenOpenIndex' = buildScreenOpenIndex(screenOpenIndex, screenOpenData)
  /\ UNCHANGED << taskActionIndex, taskHistoryIndex, userIndex,
                  autoAssignmentIndex, openTimeIndex, reportVars,
                  analysisVars, timeVars, callVars, runVars >>

\* processor.generateReport(): both passes, or the TypeError of the first
GenerateReport ==
  /\ analysisOutcome = "none" /\ ~diffCalled
  /\ LET drafts == draftPass(newReportRecords, allTaskIds)
     IN IF drafts.threw
        THEN /\ currentReportRecords' = drafts.records
             /\ reportOutcome' = "threw"
        ELSE /\ currentReportRecords' = derivationPass(drafts.records)
             /\ reportOutcome' = "returned"
  /\ UNCHANGED << indexes, analysisVars, timeVars, callVars, runVars >>

\* processor.generateAutoTaskOpenAnalysis()
GenerateAutoTaskOpenAnalysis ==
  /\ reportOutcome = "none" /\ ~diffCalled
  /\ analysisRecords' = generateAutoTaskOpenAnalysis
  /\ analysisOutcome' = "returned"
  /\ UNCHANGED << indexes, reportVars, timeVars, callVars, runVars >>

\* the instants of a direct call: on the minute, 1 ms, half a minute and
\* 59.999 s past it
TimeInputs ==
  { Date(m * MsPerMinute + o) :
      m \in 0..MaxMinute, o \in {0, 1, 30000, 59999} } \cup {Null}

\* calculateTimeDifferenceMinutes(a, b), called on its own
CallCalculateTimeDifference ==
  /\ building /\ held = 0
  /\ \E a \in TimeInputs, b \in TimeInputs :
       /\ startDate' = a
       /\ endDate' = b
       /\ diffMinutes' = calculateTimeDifferenceMinutes(a, b)
  /\ diffCalled' = TRUE
  /\ UNCHANGED << indexes, reportVars, analysisVars, callVars, runVars >>

Next ==
  \/ CallCalculateTimeDifference
  \/ BuildTaskActionIndex
  \/ BuildTaskHistoryIndex
  \/ BuildUserIndex
  \/ BuildAutoAssignmentIndex
  \/ BuildOpenTimeIndex
  \/ BuildScreenOpenIndex
  \/ GenerateReport
  \/ GenerateAutoTaskOpenAnalysis

Spec == Init /\ [][Next]_vars

(***************************************************************************)
(* calculateTimeDifferenceMinutes on its own: the two arguments are drawn  *)
(* at the start, the step applies the function to them.                    *)
(***************************************************************************)
InitTime ==
  /\ taskActionIndex = <<>>
  /\ taskHistoryIndex = <<>>
  /\ userIndex = <<>>
  /\ autoAssignmentIndex = <<>>
  /\ openTimeIndex = <<>>
  /\ screenOpenIndex = <<>>
  /\ currentReportRecords = <<>>
  /\ reportOutcome = "none"
  /\ analysisRecords = <<>>
  /\ analysisOutcome = "none"
  /\ startDate \in TimeInputs
  /\ endDate \in TimeInputs
  /\ diffMinutes = Null
  /\ diffCalled = FALSE
  /\ source = NoSource
  /\ calls = 0
  /\ pc = "idle"
  /\ cursor = 0
  /\ reportFile = "absent"
  /\ analysisFile = "absent"

CalculateTimeDifference ==
  /\ ~diffCalled
  /\ diffMinutes' = calculateTimeDifferenceMinutes(startDate, endDate)
  /\ diffCalled' = TRUE
  /\ UNCHANGED << indexes, reportVars, analysisVars, startDate, endDate,
                  callVars, runVars >>

NextTime == CalculateTimeDifference

SpecTime == InitTime /\ [][NextTime]_vars

(***************************************************************************)
(* Properties.  What a property expects is written here from the indexes  *)
(* themselves, not with the lookups of the processor.                      *)
(***************************************************************************)
KeysOf(m) == { m[i].k : i \in 1..Len(m) }

EntryOf(m, k) == m[CHOOSE i \in 1..Len(m) : m[i].k = k]

\* the TaskHistory list of a task id, empty when it has none
HistoryOf(taskId) ==
  IF taskId \in KeysOf(taskHistoryIndex)
  THEN EntryOf(taskHistoryIndex, taskId).v ELSE <<>>

Matches(h, mcStatus, action) == h.mcStatus = mcStatus /\ h.action = action

\* result is what a lookup by first match has to give on the list
IsFirstMatch(result, list, mcStatus, action) ==
  \/ /\ \A i \in 1..Len(list) : ~Matches(list[i], mcStatus, action)
     /\ result = Null
  \/ \E i \in 1..Len(list) :
       /\ Matches(list[i], mcStatus, action)
       /\ \A j \in 1..(i - 1) : ~Matches(list[j], mcStatus, action)
       /\ result = list[i].actionTimestamp

Returned == reportOutcome = "returned"

\* the records of the returned report
Records == { currentReportRecords[i] : i \in 1..Len(currentReportRecords) }

\* C1: for every task id and every content of the indexes, determineMode
\* gives one of Auto, Manual, Unknown: Auto when the id is a key of the
\* AutoAssignment index (also when it is a key of TaskActions too), else
\* Manual when it is a key of TaskActions, else Unknown; the mode of a report
\* record is that value.
C1_ModeByPriority ==
  /\ \A t \in TaskIds \cup {""} :
       /\ determineMode(t) \in {"Auto", "Manual", "Unknown"}
       /\ t \in KeysOf(autoAssignmentIndex) => determineMode(t) = "Auto"
       /\ t \notin KeysOf(autoAssignmentIndex)
          /\ t \in KeysOf(taskActionIndex) => determineMode(t) = "Manual"
       /\ t \notin KeysOf(autoAssignmentIndex)
          /\ t \notin KeysOf(taskActionIndex) => determineMode(t) = "Unknown"
  /\ Returned =>
       \A r \in Records :
         r.mode = IF r.task \in KeysOf(autoAssignmentIndex) THEN "Auto"
                  ELSE IF r.task \in KeysOf(taskActionIndex) THEN "Manual"
                  ELSE "Unknown"

\* a report with a task that is in both indexes, classified Auto, and a task
\* of the TaskActions alone, classified Manual
C1_Witness ==
  /\ Returned
  /\ \E r \in Records :
       /\ r.task \in KeysOf(autoAssignmentIndex) \cap KeysOf(taskActionIndex)
       /\ r.mode = "Auto"
  /\ \E r \in Records : r.mode = "Manual"

\* C2: getAssignedTime of an Auto task is the timestamp of its AutoAssignment
\* record, whatever its TaskHistory holds; of a Manual or Unknown task it is
\* the timestamp of the first PME/AS entry of its TaskHistory, null without one.
C2_AssignedTimeByMode ==
  \A t \in TaskIds :
    IF t \in KeysOf(autoAssignmentIndex)
    THEN getAssignedTime(t) = EntryOf(autoAssignmentIndex, t).v.timestamp
    ELSE IsFirstMatch(getAssignedTime(t), HistoryOf(t), "PME", "AS")

\* an Auto task whose history holds a PME/AS entry of another instant, and a
\* task of the history alone that is assigned by its PME/AS entry
C2_Witness ==
  /\ "T1" \in KeysOf(autoAssignmentIndex)
  /\ \E i \in 1..Len(HistoryOf("T1")) :
       /\ Matches(HistoryOf("T1")[i], "PME", "AS")
       /\ IsDate(HistoryOf("T1")[i].actionTimestamp)
       /\ HistoryOf("T1")[i].actionTimestamp # getAssignedTime("T1")
  /\ getAssignedTime("T1") = EntryOf(autoAssignmentIndex, "T1").v.timestamp

\* the three lookups give the first match of the list as it stands
FirstMatchOfList ==
  \A t \in TaskIds :
    /\ IsFirstMatch(getCreatedTime(t), HistoryOf(t), "PMA", "IN")
    /\ IsFirstMatch(getManualAssignedTime(t), HistoryOf(t), "PME", "AS")
    /\ IsFirstMatch(getMakerCompleteTime(t), HistoryOf(t), "PCA", "SC")

HasMatch(list, mcStatus, action) ==
  \E i \in 1..Len(list) : Matches(list[i], mcStatus, action)

\* a step keeps what a lookup gives once the list holds a match for it:
\* entries ingested later, whatever their timestamps, do not change it
KeepsFirstIngested ==
  \A t \in TaskIds :
    /\ HasMatch(HistoryOf(t), "PMA", "IN")
       => getCreatedTime(t)' = getCreatedTime(t)
    /\ HasMatch(HistoryOf(t), "PME", "AS")
       => getManualAssignedTime(t)' = getManualAssignedTime(t)
    /\ HasMatch(HistoryOf(t), "PCA", "SC")
       => getMakerCompleteTime(t)' = getMakerCompleteTime(t)

C4_NoCreationEntry ==
  \A t \in TaskIds :
    (\A i \in 1..Len(HistoryOf(t)) : ~Matches(HistoryOf(t)[i], "PMA", "IN"))
    => /\ getCreatedTime(t) = Null
       /\ Returned =>
            \A r \in Records :
              r.task = t => r.createdTime = EmptyString /\ r.waitingTime = Null

\* a report with a task that has history entries and an assigned time, but
\* no PMA/IN entry
C4_Witness ==
  /\ Returned
  /\ \E r \in Records :
       /\ r.task = "T1"
       /\ Len(HistoryOf("T1")) > 0
       /\ \A i \in 1..Len(HistoryOf("T1")) :
            ~Matches(HistoryOf("T1")[i], "PMA", "IN")
       /\ r.assignedTime # EmptyString
       /\ r.createdTime = EmptyString
       /\ r.waitingTime = Null

\* the task ids generateReport has to report
ReportedTaskIds ==
  KeysOf(taskActionIndex) \cup KeysOf(taskHistoryIndex)
  \cup KeysOf(autoAssignmentIndex)

\* a returned list has one record per reported task id and no other
OneRecordPerTask ==
  /\ { r.task : r \in Records } = ReportedTaskIds
  /\ Len(currentReportRecords) = Cardinality(ReportedTaskIds)

\* C5: generateReport returns exactly one record per distinct task id of the
\* union of the keys of the TaskActions, TaskHistory and AutoAssignment
\* indexes, and none for an id that is a key of the OpenTime index only.
\* The code does not: a call can end in a TypeError and return no record.
C5_OneRecordPerTaskId ==
  reportOutcome # "none" => Returned /\ OneRecordPerTask

\* what holds of the calls that do return
C5_WhenReturned == Returned => OneRecordPerTask

\* the whole minutes between two instants given in milliseconds
WholeMinutes(a, b) ==
  CHOOSE n \in 0..(Abs(a - b) \div MsPerMinute + 1) :
    n * MsPerMinute <= Abs(a - b) /\ Abs(a - b) < (n + 1) * MsPerMinute

\* C6: the productiveTime of a report record is the elapsed minutes between
\* the instants re-parsed from the assignedTime and makerCompleteTime texts of
\* that same record, and null when either text is empty.
C6_ProductiveTimeFromText ==
  Returned =>
    \A r \in Records :
      r.productiveTime =
        IF r.assignedTime = EmptyString \/ r.makerCompleteTime = EmptyString
        THEN Null
        ELSE Minutes(WholeMinutes(Ms(newDate(r.assignedTime)),
                                  Ms(newDate(r.makerCompleteTime))))

\* a report of two tasks, the second with both texts and a productive time
\* of one minute, the first with none
C6_Witness ==
  /\ Returned
  /\ Len(currentReportRecords) = 2
  /\ currentReportRecords[1].productiveTime = Null
  /\ currentReportRecords[2].assignedTime = toISOString(Date(90000))
  /\ currentReportRecords[2].makerCompleteTime = toISOString(Date(200000))
  /\ currentReportRecords[2].productiveTime = Minutes(1)

\* C7: the waitingTime of a report record is the elapsed minutes between
\* getCreatedTime and getAssignedTime of its task, asked of the indexes, and
\* null when either lookup gives null.
C7_WaitingTimeFromIndexes ==
  Returned =>
    \A r \in Records :
      r.waitingTime =
        IF getCreatedTime(r.task) = Null \/ getAssignedTime(r.task) = Null
        THEN Null
        ELSE Minutes(WholeMinutes(Ms(getCreatedTime(r.task)),
                                  Ms(getAssignedTime(r.task))))

\* an Auto task created 1 min 50 s after its assignment, whose history also
\* holds a PME/AS entry at the instant of its creation: it waited one minute
C7_Witness ==
  /\ Returned
  /\ \E r \in Records :
       /\ r.mode = "Auto"
       /\ getCreatedTime(r.task) = Date(200000)
       /\ getAssignedTime(r.task) = Date(90000)
       /\ getManualAssignedTime(r.task) = Date(200000)
       /\ r.waitingTime = Minutes(1)

\* C8: calculateTimeDifferenceMinutes(a, b) = calculateTimeDifferenceMinutes(b, a)
\* for all valid instants a and b, at millisecond granularity.
C8_Symmetric ==
  diffCalled /\ IsDate(startDate) /\ IsDate(endDate)
  => diffMinutes = calculateTimeDifferenceMinutes(endDate, startDate)

\* a call whose start is half a minute and a millisecond after its end
C8_Witness ==
  /\ diffCalled
  /\ startDate = Date(MsPerMinute + 30000)
  /\ endDate = Date(59999)
  /\ diffMinutes = Minutes(0)

IsNullOrNat(v) == v = Null \/ v[1] \in Nat

\* C9: calculateTimeDifferenceMinutes gives null when an argument is null, and
\* a non-negative whole number of minutes for two valid instants; so every
\* productiveTime, waitingTime and timeToOpenMinutes of an output row is null
\* or a non-negative integer.
C9_NullOrNonNegative ==
  /\ diffCalled =>
       IF IsDate(startDate) /\ IsDate(endDate)
       THEN diffMinutes # Null /\ diffMinutes[1] \in Nat
       ELSE diffMinutes = Null
  /\ Returned =>
       \A r \in Records :
         IsNullOrNat(r.productiveTime) /\ IsNullOrNat(r.waitingTime)
  /\ analysisOutcome = "returned" =>
       \A i \in 1..Len(analysisRecords) :
         IsNullOrNat(analysisRecords[i].timeToOpenMinutes)

\* a direct call whose end is two and a half minutes before its start
C9_Witness ==
  /\ diffCalled
  /\ startDate = Date(3 * MsPerMinute)
  /\ endDate = Date(30000)
  /\ diffMinutes = Minutes(2)

\* the valid instants among the ScreenOpen events indexed for an e-mail
OpenInstants(email) ==
  { EntryOf(screenOpenIndex, email).v[i] :
      i \in { j \in 1..Len(EntryOf(screenOpenIndex, email).v) :
                IsDate(EntryOf(screenOpenIndex, email).v[j]) } }

\* C10: for a user with indexed ScreenOpen events getFirstScreenOpenTime gives
\* the minimum timestamp among them, in every order of ingestion and also
\* when some event has a null timestamp; without an indexed event it gives
\* null.  The code gives null as soon as one event of the user has a null
\* timestamp.
C10_FirstScreenOpenIsMinimum ==
  \A email \in {Email, EmptyString} :
    IF email \notin KeysOf(screenOpenIndex) \/ OpenInstants(email) = {}
    THEN getFirstScreenOpenTime(email) = Null
    ELSE /\ getFirstScreenOpenTime(email) \in OpenInstants(email)
         /\ \A d \in OpenInstants(email) :
              Ms(getFirstScreenOpenTime(email)) <= Ms(d)

\* what holds when every indexed event has a timestamp
C10_WhenAllParsed ==
  \A email \in KeysOf(screenOpenIndex) :
    (\A i \in 1..Len(EntryOf(screenOpenIndex, email).v) :
       IsDate(EntryOf(screenOpenIndex, email).v[i]))
    => /\ getFirstScreenOpenTime(email) \in OpenInstants(email)
       /\ \A d \in OpenInstants(email) :
            Ms(getFirstScreenOpenTime(email)) <= Ms(d)

\* the earliest valid instant among the ScreenOpen events of an e-mail, null
\* when it has none
EarliestOpen(email) ==
  IF email \in KeysOf(screenOpenIndex) /\ OpenInstants(email) # {}
  THEN CHOOSE d \in OpenInstants(email) :
         \A e \in OpenInstants(email) : Ms(d) <= Ms(e)
  ELSE Null

AnalysisReturned == analysisOutcome = "returned"

\* the assignment an analysis row was made from
AssignmentOf(row) == EntryOf(autoAssignmentIndex, row.taskId).v

\* rows whose user has events, all of them with a timestamp, or no event
AllOpensParsed(email) ==
  email \in KeysOf(screenOpenIndex) =>
    \A i \in 1..Len(EntryOf(screenOpenIndex, email).v) :
      IsDate(EntryOf(screenOpenIndex, email).v[i])

\* what timeToOpenMinutes has to be for an assignment
ExpectedTimeToOpen(assignment) ==
  LET open == EarliestOpen(assignment.email)
  IN IF IsDate(open) /\ Ms(open) > Ms(assignment.timestamp)
     THEN Minutes(WholeMinutes(Ms(assignment.timestamp), Ms(open)))
     ELSE Null

\* C11: in every row of generateAutoTaskOpenAnalysis, timeToOpenMinutes is the
\* elapsed minutes from the assignment timestamp to the user's earliest
\* ScreenOpen timestamp when that one exists and is strictly after the
\* assignment, and null otherwise.  The code gives null when an event of the
\* user has a null timestamp, although the earliest timestamp exists.
C11_TimeToOpen ==
  AnalysisReturned =>
    \A i \in 1..Len(analysisRecords) :
      analysisRecords[i].timeToOpenMinutes =
        ExpectedTimeToOpen(AssignmentOf(analysisRecords[i]))

\* what holds of the rows whose user has no event without a timestamp
C11_WhenAllParsed ==
  AnalysisReturned =>
    \A i \in 1..Len(analysisRecords) :
      AllOpensParsed(AssignmentOf(analysisRecords[i]).email) =>
        analysisRecords[i].timeToOpenMinutes =
          ExpectedTimeToOpen(AssignmentOf(analysisRecords[i]))

\* the e-mail whose login a report record has to show: the login e-mail of
\* the first TaskActions entry when it is present, else the e-mail of the
\* AutoAssignment record, else Unknown
ExpectedEmail(taskId) ==
  LET actions == IF taskId \in KeysOf(taskActionIndex)
                 THEN EntryOf(taskActionIndex, taskId).v ELSE <<>>
  IN IF actions # <<>> /\ actions[1].loginEmail \notin {EmptyString, Undefined, JsNull}
     THEN actions[1].loginEmail
     ELSE IF taskId \in KeysOf(autoAssignmentIndex)
             /\ EntryOf(autoAssignmentIndex, taskId).v.email
                  \notin {EmptyString, Undefined, JsNull}
          THEN EntryOf(autoAssignmentIndex, taskId).v.email
          ELSE <<"Unknown">>

\* the text ends with the e-mail: it is the e-mail, or what is left of
\* "name (e-mail)" after the name
EndsWith(text, email) ==
  /\ Len(text) >= Len(email)
  /\ SubSeq(text, Len(text) - Len(email) + 1, Len(text)) = email

\* every record of the report shows the user of the fixed priority
UserByPriority ==
  \A r \in Records : EndsWith(r.userEmail, ExpectedEmail(r.task))

\* C12: the draft pass resolves the user of a task as the login e-mail of its
\* first TaskActions entry when present, else the e-mail of its AutoAssignment
\* record, else Unknown, also for a task whose first entry has a missing or
\* empty login e-mail, and makes a record for it without raising an error.
\* The code takes the first entry's login e-mail whatever it is: an empty one
\* is kept as the user, an undefined one ends the call in a TypeError.
C12_UserByPriority ==
  reportOutcome # "none" => Returned /\ UserByPriority

\* what holds when the first TaskActions entry of every task has a login e-mail
C12_WhenLoginPresent ==
  (\A i \in 1..Len(taskActionIndex) :
     Truthy(taskActionIndex[i].v[1].loginEmail))
  => (reportOutcome # "none" => Returned /\ UserByPriority)

(***************************************************************************)
(* One build operation of a new processor, called with a source           *)
(* collection and called again with the same collection.                   *)
(***************************************************************************)
\* records of the source collection
MaxSource == 3
\* calls of the build operation with it
MaxCalls == 2

\* users.csv rows, one of them with an empty and one without the
\* 'User Principal Name' cell
UserRows ==
  Users \cup [userPrincipalName : {EmptyString, Undefined},
              displayName : {<<"Ann">>}]

SourceArrays(S) == UNION { [1..k -> S] : k \in 0..MaxSource }

SourcesOf(of, S) == { [of |-> of, records |-> a] : a \in SourceArrays(S) }

Sources ==
  SourcesOf("taskActions", TaskActions)
  \cup SourcesOf("taskHistories", TaskHistories)
  \cup SourcesOf("users", UserRows)
  \cup SourcesOf("autoAssignments", AutoAssignments)
  \cup SourcesOf("assignToMeData", AssignToMe)
  \cup SourcesOf("screenOpenData", ScreenOpens)

InitBuild ==
  /\ taskActionIndex = <<>>
  /\ taskHistoryIndex = <<>>
  /\ userIndex = <<>>
  /\ autoAssignmentIndex = <<>>
  /\ openTimeIndex = <<>>
  /\ screenOpenIndex = <<>>
  /\ currentReportRecords = <<>>
  /\ reportOutcome = "none"
  /\ analysisRecords = <<>>
  /\ analysisOutcome = "none"
  /\ startDate = Null
  /\ endDate = Null
  /\ diffMinutes = Null
  /\ diffCalled = FALSE
  /\ source \in Sources
  /\ calls = 0
  /\ pc = "idle"
  /\ cursor = 0
  /\ reportFile = "absent"
  /\ analysisFile = "absent"

\* what a build call leaves alone, beside the other five indexes
buildFrame ==
  << reportVars, analysisVars, timeVars, source, runVars >>

CallBuildTaskActionIndex ==
  /\ source.of = "taskActions" /\ calls < MaxCalls
  /\ taskActionIndex' = buildTaskActionIndex(taskActionIndex, source.records)
  /\ calls' = calls + 1
  /\ UNCHANGED << taskHistoryIndex, userIndex, autoAssignmentIndex,
                  openTimeIndex, screenOpenIndex, buildFrame >>

CallBuildTaskHistoryIndex ==
  /\ source.of = "taskHistories" /\ calls < MaxCalls
  /\ taskHistoryIndex' = buildTaskHistoryIndex(taskHistoryIndex, source.records)
  /\ calls' = calls + 1
  /\ UNCHANGED << taskActionIndex, userIndex, autoAssignmentIndex,
                  openTimeIndex, screenOpenIndex, buildFrame >>

CallBuildUserIndex ==
  /\ source.of = "users" /\ calls < MaxCalls
  /\ userIndex' = buildUserIndex(userIndex, source.records)
  /\ calls' = calls + 1
  /\ UNCHANGED << taskActionIndex, taskHistoryIndex, autoAssignmentIndex,
                  openTimeIndex, screenOpenIndex, buildFrame >>

CallBuildAutoAssignmentIndex ==
  /\ source.of = "autoAssignments" /\ calls < MaxCalls
  /\ autoAssignmentIndex' =
       buildAutoAssignmentIndex(autoAssignmentIndex, source.records)
  /\ calls' = calls + 1
  /\ UNCHANGED << taskActionIndex, taskHistoryIndex, userIndex,
                  openTimeIndex, screenOpenIndex, buildFrame >>

CallBuildOpenTimeIndex ==
  /\ source.of = "assignToMeData" /\ calls < MaxCalls
  /\ openTimeIndex' = buildOpenTimeIndex(openTimeIndex, source.records)
  /\ calls' = calls + 1
  /\ UNCHANGED << taskActionIndex, taskHistoryIndex, userIndex,
                  autoAssignmentIndex, screenOpenIndex, buildFrame >>

CallBuildScreenOpenIndex ==
  /\ source.of = "screenOpenData" /\ calls < MaxCalls
  /\ screenOpenIndex' = buildScreenOpenIndex(screenOpenIndex, source.records)
  /\ calls' = calls + 1
  /\ UNCHANGED << taskActionIndex, taskHistoryIndex, userIndex,
                  autoAssignmentIndex, openTimeIndex, buildFrame >>

NextBuild ==
  \/ CallBuildTaskActionIndex
  \/ CallBuildTaskHistoryIndex
  \/ CallBuildUserIndex
  \/ CallBuildAutoAssignmentIndex
  \/ CallBuildOpenTimeIndex
  \/ CallBuildScreenOpenIndex

SpecBuild == InitBuild /\ [][NextBuild]_vars

\* a call with a collection that holds a record was made
Built == calls >= 1 /\ source.records # <<>>

\* C13: each of the six builds is idempotent given the same input: a second
\* call with the same source collection leaves the index as the first call
\* left it.  The code does not for the three indexes of arrays: the second
\* call appends every record once more.
C13_RebuildIsIdempotent == [][calls >= 1 => indexes' = indexes]_vars

\* what holds: the builds that overwrite are idempotent
C13_OverwritingBuilds ==
  [][calls >= 1 =>
       << userIndex, autoAssignmentIndex, openTimeIndex >>'
         = << userIndex, autoAssignmentIndex, openTimeIndex >>]_vars

\* the records passed to the build so far, call after call
RECURSIVE Repeat(_, _)
Repeat(records, n) ==
  IF n = 0 THEN <<>> ELSE records \o Repeat(records, n - 1)

Passed == Repeat(source.records, calls)

\* the join key of a record of the source under study
KeyOf(r) ==
  CASE source.of \in {"taskActions", "taskHistories", "autoAssignments"}
         -> r.taskId
    [] source.of = "assignToMeData" -> r.tasknum
    [] source.of = "users" -> r.userPrincipalName
    [] source.of = "screenOpenData" -> r.email

\* the records passed with that key, in source order
PassedWith(k) ==
  LET carries(r) == KeyOf(r) = k IN SelectSeq(Passed, carries)

LastOf(list) == list[Len(list)]

\* a null, missing or empty join key: a task id is "", an e-mail is '',
\* undefined or null
IsNoKey(k) ==
  IF source.of \in {"users", "screenOpenData"}
  THEN k \in {EmptyString, Undefined, JsNull}
  ELSE k = ""

DistinctKeys(m) ==
  \A i \in 1..Len(m) : \A j \in 1..Len(m) : m[i].k = m[j].k => i = j

\* the index holds a key for every join key passed, once
KeysArePassed(m) ==
  /\ DistinctKeys(m)
  /\ \A i \in 1..Len(Passed) :
       ~IsNoKey(KeyOf(Passed[i])) => KeyOf(Passed[i]) \in KeysOf(m)
  /\ \A k \in KeysOf(m) : PassedWith(k) # <<>>

\* C14: the AutoAssignment index holds at most one record per task id, the
\* last one in source order that carried it; the OpenTime index (per tasknum)
\* and the Users index (per principal name) follow the same last-write-wins
\* rule; TaskActions, TaskHistory and ScreenOpen keep every record of a key in
\* source order.
C14_LastWriteWins ==
  /\ source.of = "autoAssignments" =>
       /\ KeysArePassed(autoAssignmentIndex)
       /\ \A i \in 1..Len(autoAssignmentIndex) :
            autoAssignmentIndex[i].v
              = LastOf(PassedWith(autoAssignmentIndex[i].k))
  /\ source.of = "assignToMeData" =>
       /\ KeysArePassed(openTimeIndex)
       /\ \A i \in 1..Len(openTimeIndex) :
            openTimeIndex[i].v
              = LastOf(PassedWith(openTimeIndex[i].k)).timestamp
  /\ source.of = "users" =>
       /\ DistinctKeys(userIndex)
       /\ \A i \in 1..Len(userIndex) :
            /\ PassedWith(userIndex[i].k) # <<>>
            /\ userIndex[i].v
                 = LastOf(PassedWith(userIndex[i].k)).displayName
  /\ source.of = "taskActions" =>
       /\ KeysArePassed(taskActionIndex)
       /\ \A i \in 1..Len(taskActionIndex) :
            taskActionIndex[i].v = PassedWith(taskActionIndex[i].k)
  /\ source.of = "taskHistories" =>
       /\ KeysArePassed(taskHistoryIndex)
       /\ \A i \in 1..Len(taskHistoryIndex) :
            taskHistoryIndex[i].v = PassedWith(taskHistoryIndex[i].k)
  /\ source.of = "screenOpenData" =>
       /\ KeysArePassed(screenOpenIndex)
       /\ \A i \in 1..Len(screenOpenIndex) :
            LET events == PassedWith(screenOpenIndex[i].k)
            IN screenOpenIndex[i].v
                 = [j \in 1..Len(events) |-> events[j].timestamp]

\* three auto assignments, the first and the last of the task T1 at
\* different instants, built once: the index holds the last one for T1
C14_Witness ==
  /\ source.of = "autoAssignments" /\ calls = 1
  /\ Len(source.records) = 3
  /\ source.records[1].taskId = "T1"
  /\ source.records[2].taskId = "T2"
  /\ source.records[3].taskId = "T1"
  /\ source.records[1].timestamp # source.records[3].timestamp
  /\ autoAssignmentIndex = << [k |-> "T1", v |-> source.records[3]],
                              [k |-> "T2", v |-> source.records[2]] >>

\* the records of a collection that have a join key
WithKey(records) ==
  LET keyed(r) == ~IsNoKey(KeyOf(r)) IN SelectSeq(records, keyed)

\* the index of the source under study is the one built from the records
\* that have a join key
BuiltFromKeyed ==
  /\ source.of = "taskActions" =>
       taskActionIndex = buildTaskActionIndex(<<>>, WithKey(Passed))
  /\ source.of = "taskHistories" =>
       taskHistoryIndex = buildTaskHistoryIndex(<<>>, WithKey(Passed))
  /\ source.of = "autoAssignments" =>
       autoAssignmentIndex = buildAutoAssignmentIndex(<<>>, WithKey(Passed))
  /\ source.of = "assignToMeData" =>
       openTimeIndex = buildOpenTimeIndex(<<>>, WithKey(Passed))
  /\ source.of = "screenOpenData" =>
       screenOpenIndex = buildScreenOpenIndex(<<>>, WithKey(Passed))

\* no key of an index by task id, or by e-mail, is null or empty
NoKeylessTask(m) == \A k \in KeysOf(m) : k # ""

NoKeylessEmail(m) == \A k \in KeysOf(m) : k \notin {EmptyString, Undefined, JsNull}

\* C15: a source record without a join key (task id for TaskActions,
\* TaskHistory, AutoAssignment and OpenTime, e-mail for ScreenOpen) is left
\* out of its index without an error: the index is the one the collection
\* without that record gives, and no index ever has a null or empty key.
\* The code guards five builds; buildUserIndex sets the key of every row, an
\* empty or undefined principal name too.
C15_KeylessExcluded ==
  /\ BuiltFromKeyed
  /\ NoKeylessTask(taskActionIndex) /\ NoKeylessTask(taskHistoryIndex)
  /\ NoKeylessTask(autoAssignmentIndex) /\ NoKeylessTask(openTimeIndex)
  /\ NoKeylessEmail(screenOpenIndex) /\ NoKeylessEmail(userIndex)

\* what holds: the five indexes of the guarded builds
C15_GuardedBuilds ==
  /\ BuiltFromKeyed
  /\ NoKeylessTask(taskActionIndex) /\ NoKeylessTask(taskHistoryIndex)
  /\ NoKeylessTask(autoAssignmentIndex) /\ NoKeylessTask(openTimeIndex)
  /\ NoKeylessEmail(screenOpenIndex)

\* the index a task id is first seen in, the three being scanned as
\* TaskActions, TaskHistory, AutoAssignment
FirstSeenIn(taskId) ==
  IF taskId \in KeysOf(taskActionIndex) THEN 1
  ELSE IF taskId \in KeysOf(taskHistoryIndex) THEN 2
  ELSE 3

ScannedIndex(n) ==
  CASE n = 1 -> taskActionIndex
    [] n = 2 -> taskHistoryIndex
    [] n = 3 -> autoAssignmentIndex

\* the place of the key in the insertion order of the index
PlaceOf(m, k) == CHOOSE i \in 1..Len(m) : m[i].k = k

\* a comes before b in the order of first appearance
AppearsBefore(a, b) ==
  \/ FirstSeenIn(a) < FirstSeenIn(b)
  \/ /\ FirstSeenIn(a) = FirstSeenIn(b)
     /\ PlaceOf(ScannedIndex(FirstSeenIn(a)), a)
          < PlaceOf(ScannedIndex(FirstSeenIn(b)), b)

\* C16: the records generateReport returns are in the order of each task
\* id's first appearance across the three indexes, scanned as TaskActions
\* keys, TaskHistory keys, AutoAssignment keys: an id first seen in an
\* earlier-scanned index precedes every id first seen in a later one, and ids
\* first seen in the same index keep its key insertion order.
C16_FirstAppearanceOrder ==
  Returned =>
    \A i \in 1..Len(currentReportRecords) :
      \A j \in (i + 1)..Len(currentReportRecords) :
        AppearsBefore(currentReportRecords[i].task,
                      currentReportRecords[j].task)

\* T1 then T2 auto-assigned, T2 alone with a TaskActions entry: the report
\* lists T2 before T1
C16_Witness ==
  /\ Returned
  /\ MapKeys(autoAssignmentIndex) = <<"T1", "T2">>
  /\ MapKeys(taskActionIndex) = <<"T2">>
  /\ Len(currentReportRecords) = 2
  /\ currentReportRecords[1].task = "T2"
  /\ currentReportRecords[2].task = "T1"

(***************************************************************************)
(* The entry point of index.js: generateTaskPerformanceReport(), then      *)
(* generateAutoTaskOpenAnalysis().  A step is the code that runs when an   *)
(* awaited parse settles; generateReport is followed loop turn by loop     *)
(* turn.  The six index variables are those of the processor of the        *)
(* function that is running: generateAutoTaskOpenAnalysis makes a new one. *)
(* A source that cannot be read or parsed ends the process with the error  *)
(* (the catch block's process.exit(1), or the unhandled 'error' event of   *)
(* the read stream).  A write stream that was started finishes at any      *)
(* later turn of the event loop, as long as the process lives.             *)
(***************************************************************************)
\* what the parse of a file can resolve with
ParsedFile(name) ==
  CASE name = "useravailability" ->
         { <<>>,
           << [taskId |-> "T1", loginEmail |-> Email] >>,
           << [taskId |-> "T2", loginEmail |-> Email],
              [taskId |-> "T1", loginEmail |-> Undefined] >> }
    [] name = "taskhistories" ->
         { <<>>,
           << [taskId |-> "T1", mcStatus |-> "PMA", action |-> "IN",
               actionTimestamp |-> Date(90000)],
              [taskId |-> "T1", mcStatus |-> "PCA", action |-> "SC",
               actionTimestamp |-> Date(200000)] >> }
    [] name = "users" ->
         { <<>>, << [userPrincipalName |-> Email, displayName |-> <<"Ann">>] >> }
    [] name = "gcp" ->
         { <<>>,
           << [taskId |-> "T2", email |-> Email, timestamp |-> Date(90000)] >>,
           << [taskId |-> "T1", email |-> Email, timestamp |-> Date(90000)],
              [taskId |-> "T2", email |-> Email, timestamp |-> Date(200000)] >> }
    [] name = "assigntome" ->
         { <<>>, << [tasknum |-> "T1", timestamp |-> Date(90000)] >> }
    [] name = "openCambridgeTime" ->
         { <<>>, << [email |-> Email, timestamp |-> Date(200000)] >> }

InitRun ==
  /\ taskActionIndex = <<>>
  /\ taskHistoryIndex = <<>>
  /\ userIndex = <<>>
  /\ autoAssignmentIndex = <<>>
  /\ openTimeIndex = <<>>
  /\ screenOpenIndex = <<>>
  /\ currentReportRecords = <<>>
  /\ reportOutcome = "none"
  /\ analysisRecords = <<>>
  /\ analysisOutcome = "none"
  /\ startDate = Null
  /\ endDate = Null
  /\ diffMinutes = Null
  /\ diffCalled = FALSE
  /\ source = NoSource
  /\ calls = 0
  /\ pc = "parseUserAvailability"
  /\ cursor = 0
  /\ reportFile = "absent"
  /\ analysisFile = "absent"

\* what a step of the parsing leaves alone, beside the other indexes
parseFrame ==
  << reportVars, analysisVars, timeVars, source, cursor, reportFile,
     analysisFile >>

ParseUserAvailability ==
  /\ pc = "parseUserAvailability"
  /\ \E userAvailabilityData \in ParsedFile("useravailability") :
       taskActionIndex' =
         buildTaskActionIndex(taskActionIndex, userAvailabilityData)
  /\ calls' = calls + 1
  /\ pc' = "parseTaskHistories"
  /\ UNCHANGED << taskHistoryIndex, userIndex, autoAssignmentIndex,
                  openTimeIndex, screenOpenIndex, parseFrame >>

ParseTaskHistories ==
  /\ pc = "parseTaskHistories"
  /\ \E taskHistoryData \in ParsedFile("taskhistories") :
       taskHistoryIndex' = buildTaskHistoryIndex(taskHistoryIndex, taskHistoryData)
  /\ calls' = calls + 1
  /\ pc' = "parseUsers"
  /\ UNCHANGED << taskActionIndex, userIndex, autoAssignmentIndex,
                  openTimeIndex, screenOpenIndex, parseFrame >>

ParseUsers ==
  /\ pc = "parseUsers"
  /\ \E userData \in ParsedFile("users") :
       userIndex' = buildUserIndex(userIndex, userData)
  /\ calls' = calls + 1
  /\ pc' = "parseGcp"
  /\ UNCHANGED << taskActionIndex, taskHistoryIndex, autoAssignmentIndex,
                  openTimeIndex, screenOpenIndex, parseFrame >>

ParseGcp ==
  /\ pc = "parseGcp"
  /\ \E gcpData \in ParsedFile("gcp") :
       autoAssignmentIndex' = buildAutoAssignmentIndex(autoAssignmentIndex, gcpData)
  /\ calls' = calls + 1
  /\ pc' = "parseAssignToMe"
  /\ UNCHANGED << taskActionIndex, taskHistoryIndex, userIndex,
                  openTimeIndex, screenOpenIndex, parseFrame >>

ParseAssignToMe ==
  /\ pc = "parseAssignToMe"
  /\ \E assignToMeData \in ParsedFile("assigntome") :
       openTimeIndex' = buildOpenTimeIndex(openTimeIndex, assignToMeData)
  /\ calls' = calls + 1
  /\ pc' = "parseOpenCambridgeTime"
  /\ UNCHANGED << taskActionIndex, taskHistoryIndex, userIndex,
                  autoAssignmentIndex, screenOpenIndex, parseFrame >>

ParseOpenCambridgeTime ==
  /\ pc = "parseOpenCambridgeTime"
  /\ \E screenOpenData \in ParsedFile("openCambridgeTime") :
       screenOpenIndex' = buildScreenOpenIndex(screenOpenIndex, screenOpenData)
  /\ calls' = calls + 1
  /\ pc' = "generateReport"
  /\ UNCHANGED << taskActionIndex, taskHistoryIndex, userIndex,
                  autoAssignmentIndex, openTimeIndex, parseFrame >>

\* generateReport, lines 292-305: the empty list and the task ids
StartGenerateReport ==
  /\ pc = "generateReport"
  /\ currentReportRecords' = newReportRecords
  /\ cursor' = 1
  /\ pc' = "draft"
  /\ UNCHANGED << indexes, reportOutcome, analysisVars, timeVars, callVars,
                  reportFile, analysisFile >>

\* a bug: the first loop is left after its first turn
draftPassDoneAfterFirst == cursor > 1

\* the first loop has gone through every task id
draftPassDone == cursor > Len(allTaskIds)

\* the second loop has gone through every record
derivationPassDone == cursor > Len(currentReportRecords)

\* one turn of the first loop, lines 309-355; a TypeError goes to the catch
\* block of generateTaskPerformanceReport
DraftStep ==
  /\ pc = "draft"
  /\ cursor \in 1..Len(allTaskIds)
  /\ IF draftThrows(allTaskIds[cursor])
     THEN /\ reportOutcome' = "threw"
          /\ pc' = "exitedOnError"
          /\ UNCHANGED << currentReportRecords, cursor >>
     ELSE /\ currentReportRecords' =
               Append(currentReportRecords, draftRecord(allTaskIds[cursor]))
          /\ cursor' = cursor + 1
          /\ UNCHANGED << reportOutcome, pc >>
  /\ UNCHANGED << indexes, analysisVars, timeVars, callVars, reportFile,
                  analysisFile >>

\* the first loop ends, the second begins
EndDraftPass ==
  /\ pc = "draft"
  /\ draftPassDone
  /\ cursor' = 1
  /\ pc' = "derive"
  /\ UNCHANGED << indexes, reportVars, analysisVars, timeVars, callVars,
                  reportFile, analysisFile >>

\* lines 359-360 for one record of the list
deriveRecord(records, record) ==
  [ task |-> record.task,
    userName |-> record.userName,
    userEmail |-> record.userEmail,
    mode |-> record.mode,
    createdTime |-> record.createdTime,
    assignedTime |-> record.assignedTime,
    makerCompleteTime |-> record.makerCompleteTime,
    openTime |-> record.openTime,
    productiveTime |-> calculateProductiveTime(records, record.task),
    waitingTime |-> calculateWaitingTime(record.task) ]

\* one turn of the second loop, lines 358-361
DeriveStep ==
  /\ pc = "derive"
  /\ cursor \in 1..Len(currentReportRecords)
  /\ currentReportRecords' =
       [currentReportRecords EXCEPT ![cursor] =
          deriveRecord(currentReportRecords, currentReportRecords[cursor])]
  /\ cursor' = cursor + 1
  /\ UNCHANGED << indexes, reportOutcome, analysisVars, timeVars, callVars,
                  pc, reportFile, analysisFile >>

\* return reportRecords
ReturnReport ==
  /\ pc = "derive"
  /\ derivationPassDone
  /\ reportOutcome' = "returned"
  /\ pc' = "writeReport"
  /\ UNCHANGED << indexes, currentReportRecords, analysisVars, timeVars,
                  callVars, cursor, reportFile, analysisFile >>

\* index.js lines 63-83: the write stream is made and piped to, the function
\* returns without waiting for 'finish'; lines 225-228: the next function
\* starts, with a new processor, and waits for its first parse
WriteReport ==
  /\ pc = "writeReport"
  /\ reportFile' = "partial"
  /\ taskActionIndex' = <<>>
  /\ taskHistoryIndex' = <<>>
  /\ userIndex' = <<>>
  /\ autoAssignmentIndex' = <<>>
  /\ openTimeIndex' = <<>>
  /\ screenOpenIndex' = <<>>
  /\ calls' = 0
  /\ pc' = "analysisParseGcp"
  /\ UNCHANGED << reportVars, analysisVars, timeVars, source, cursor,
                  analysisFile >>

AnalysisParseGcp ==
  /\ pc = "analysisParseGcp"
  /\ \E gcpData \in ParsedFile("gcp") :
       autoAssignmentIndex' = buildAutoAssignmentIndex(autoAssignmentIndex, gcpData)
  /\ calls' = calls + 1
  /\ pc' = "analysisParseUsers"
  /\ UNCHANGED << taskActionIndex, taskHistoryIndex, userIndex,
                  openTimeIndex, screenOpenIndex, parseFrame >>

AnalysisParseUsers ==
  /\ pc = "analysisParseUsers"
  /\ \E userData \in ParsedFile("users") :
       userIndex' = buildUserIndex(userIndex, userData)
  /\ calls' = calls + 1
  /\ pc' = "analysisParseOpenCambridgeTime"
  /\ UNCHANGED << taskActionIndex, taskHistoryIndex, autoAssignmentIndex,
                  openTimeIndex, screenOpenIndex, parseFrame >>

AnalysisParseOpenCambridgeTime ==
  /\ pc = "analysisParseOpenCambridgeTime"
  /\ \E screenOpenData \in ParsedFile("openCambridgeTime") :
       screenOpenIndex' = buildScreenOpenIndex(screenOpenIndex, screenOpenData)
  /\ calls' = calls + 1
  /\ pc' = "generateAnalysis"
  /\ UNCHANGED << taskActionIndex, taskHistoryIndex, userIndex,
                  autoAssignmentIndex, openTimeIndex, parseFrame >>

\* index.js lines 194-215: the analysis is generated, its write stream is
\* made and piped to, the function returns
WriteAnalysis ==
  /\ pc = "generateAnalysis"
  /\ analysisRecords' = generateAutoTaskOpenAnalysis
  /\ analysisOutcome' = "returned"
  /\ analysisFile' = "partial"
  /\ pc' = "returned"
  /\ UNCHANGED << indexes, reportVars, timeVars, callVars, cursor,
                  reportFile >>

\* the positions at which a parse is awaited
AwaitingParse ==
  { "parseUserAvailability", "parseTaskHistories", "parseUsers", "parseGcp",
    "parseAssignToMe", "parseOpenCambridgeTime", "analysisParseGcp",
    "analysisParseUsers", "analysisParseOpenCambridgeTime" }

\* the awaited source cannot be read or parsed as a whole: the process exits
SourceUnreadable ==
  /\ pc \in AwaitingParse
  /\ pc' = "exitedOnSource"
  /\ UNCHANGED << indexes, reportVars, analysisVars, timeVars, callVars,
                  cursor, reportFile, analysisFile >>

Exited == pc \in {"exitedOnSource", "exitedOnError"}

\* the 'finish' event of the report's write stream
FinishReportFile ==
  /\ ~Exited
  /\ reportFile = "partial"
  /\ reportFile' = "complete"
  /\ UNCHANGED << indexes, reportVars, analysisVars, timeVars, callVars,
                  pc, cursor, analysisFile >>

\* the 'finish' event of the analysis' write stream
FinishAnalysisFile ==
  /\ ~Exited
  /\ analysisFile = "partial"
  /\ analysisFile' = "complete"
  /\ UNCHANGED << indexes, reportVars, analysisVars, timeVars, callVars,
                  pc, cursor, reportFile >>

NextRun ==
  \/ ParseUserAvailability
  \/ ParseTaskHistories
  \/ ParseUsers
  \/ ParseGcp
  \/ ParseAssignToMe
  \/ ParseOpenCambridgeTime
  \/ StartGenerateReport
  \/ DraftStep
  \/ EndDraftPass
  \/ DeriveStep
  \/ ReturnReport
  \/ WriteReport
  \/ AnalysisParseGcp
  \/ AnalysisParseUsers
  \/ AnalysisParseOpenCambridgeTime
  \/ WriteAnalysis
  \/ SourceUnreadable
  \/ FinishReportFile
  \/ FinishAnalysisFile

SpecRun == InitRun /\ [][NextRun]_vars

\* generateReport is running: Phase Resolver queries are being issued
Resolving == pc \in {"draft", "derive"}

\* the record went through the derivation pass
Derived(record) == "productiveTime" \in DOMAIN record

\* the draft records of the list are those of all the task ids, in order
AllDrafted ==
  /\ Len(currentReportRecords) = Len(allTaskIds)
  /\ \A i \in 1..Len(allTaskIds) : currentReportRecords[i].task = allTaskIds[i]

\* the phases of a report run, state by state
PhasesInOrder ==
  /\ pc \in {"generateReport", "draft", "derive", "writeReport"} => calls = 6
  /\ pc = "draft" =>
       \A i \in 1..Len(currentReportRecords) : ~Derived(currentReportRecords[i])
  /\ pc = "derive" =>
       /\ AllDrafted
       /\ \A i \in 1..Len(currentReportRecords) :
            Derived(currentReportRecords[i]) <=> i < cursor
       /\ cursor \in 1..Len(currentReportRecords) =>
            findRecordByTaskId(currentReportRecords,
                               currentReportRecords[cursor].task)
              = << currentReportRecords[cursor] >>

\* no index is written from the first query of generateReport to its return
IndexesSettled == Resolving => indexes' = indexes

\* C17: the phases of a report run happen in strict order: all six index
\* builds are complete before generateReport issues its first Phase Resolver
\* query, and every draft record has been appended before the first
\* productiveTime or waitingTime is computed, so the derivation of each record
\* finds its own draft record in the list.
C17_PhasesInOrder == []PhasesInOrder /\ [][IndexesSettled]_vars

\* the derivation pass at its second record: both drafts are in the list,
\* the first is derived, the second is not yet
C17_Witness ==
  /\ pc = "derive" /\ cursor = 2 /\ calls = 6
  /\ Len(currentReportRecords) = 2
  /\ Derived(currentReportRecords[1])
  /\ ~Derived(currentReportRecords[2])
  /\ currentReportRecords[2].assignedTime # EmptyString

\* C18: when a source collection is unreadable or unparsable as a whole in
\* any step of the run (generateTaskPerformanceReport followed by
\* generateAutoTaskOpenAnalysis), the run aborts and no partially written
\* output file results: no report write has been started and left unfinished
\* when the process exits with the error.  The code starts the write of the
\* first report and goes on to the second function without waiting for it.
C18_NoPartialOutput ==
  pc = "exitedOnSource" => reportFile # "partial" /\ analysisFile # "partial"

\* what holds: a function exits on its own sources before it starts its write
C18_BeforeOwnWrite ==
  pc = "exitedOnSource" =>
    /\ analysisFile = "absent"
    /\ reportOutcome = "none" => reportFile = "absent"

(***************************************************************************)
(* A processor whose six indexes are built, and generateReport called on   *)
(* it again and again.                                                     *)
(***************************************************************************)
InitAgain ==
  /\ \E taskActions \in ParsedFile("useravailability") :
       taskActionIndex = buildTaskActionIndex(<<>>, taskActions)
  /\ \E taskHistories \in ParsedFile("taskhistories") :
       taskHistoryIndex = buildTaskHistoryIndex(<<>>, taskHistories)
  /\ \E users \in ParsedFile("users") :
       userIndex = buildUserIndex(<<>>, users)
  /\ \E autoAssignments \in ParsedFile("gcp") :
       autoAssignmentIndex = buildAutoAssignmentIndex(<<>>, autoAssignments)
  /\ \E assignToMeData \in ParsedFile("assigntome") :
       openTimeIndex = buildOpenTimeIndex(<<>>, assignToMeData)
  /\ \E screenOpenData \in ParsedFile("openCambridgeTime") :
       screenOpenIndex = buildScreenOpenIndex(<<>>, screenOpenData)
  /\ currentReportRecords = <<>>
  /\ reportOutcome = "none"
  /\ analysisRecords = <<>>
  /\ analysisOutcome = "none"
  /\ startDate = Null
  /\ endDate = Null
  /\ diffMinutes = Null
  /\ diffCalled = FALSE
  /\ source = NoSource
  /\ calls = 0
  /\ pc = "idle"
  /\ cursor = 0
  /\ reportFile = "absent"
  /\ analysisFile = "absent"

\* processor.generateReport(), one call more
CallGenerateReport ==
  /\ calls < MaxCalls
  /\ LET drafts == draftPass(newReportRecords, allTaskIds)
     IN IF drafts.threw
        THEN /\ currentReportRecords' = drafts.records
             /\ reportOutcome' = "threw"
        ELSE /\ currentReportRecords' = derivationPass(drafts.records)
             /\ reportOutcome' = "returned"
  /\ calls' = calls + 1
  /\ UNCHANGED << indexes, analysisVars, timeVars, source, runVars >>

NextAgain == CallGenerateReport

SpecAgain == InitAgain /\ [][NextAgain]_vars

\* what the five lookups give for every task id
Lookups ==
  [ t \in TaskIds \cup {""} |->
      << determineMode(t), getCreatedTime(t), getAssignedTime(t),
         getMakerCompleteTime(t), getOpenTime(t) >> ]

\* a call of generateReport writes no index and changes no lookup, and a
\* call after one that returned returns an equal list
CallIsPure ==
  /\ indexes' = indexes
  /\ Lookups' = Lookups
  /\ Returned => reportOutcome' = "returned"
                 /\ currentReportRecords' = currentReportRecords

\* C19: the Phase Resolver lookups are pure: determineMode, getCreatedTime,
\* getAssignedTime, getMakerCompleteTime and getOpenTime give the same value
\* each time while the indexes are not rebuilt and modify no index, and
\* generateReport leaves the six indexes unchanged, so two consecutive
\* generateReport calls on a processor return equal record lists.
C19_PureLookups == [][CallIsPure]_vars

\* a second call has returned a report of two records
C19_Witness ==
  /\ calls = 2
  /\ Returned
  /\ Len(currentReportRecords) = 2
  /\ currentReportRecords = derivationPass(draftPass(<<>>, allTaskIds).records)

\* the ScreenOpen events indexed for an e-mail
EventsOf(email) ==
  IF email \in KeysOf(screenOpenIndex)
  THEN EntryOf(screenOpenIndex, email).v ELSE <<>>

\* C20: generateAutoTaskOpenAnalysis returns exactly one row per record of
\* the AutoAssignment index, one per auto-assigned task id and not one per
\* user: the rows of one user e-mail carry the same firstScreenOpenTime and
\* the same screenOpenCount, and screenOpenCount is the number of ScreenOpen
\* events indexed for that e-mail, 0 when there are none.
C20_OneRowPerAssignment ==
  AnalysisReturned =>
    /\ Len(analysisRecords) = Len(autoAssignmentIndex)
    /\ \A i \in 1..Len(analysisRecords) :
         /\ analysisRecords[i].taskId = autoAssignmentIndex[i].k
         /\ analysisRecords[i].userEmail = autoAssignmentIndex[i].v.email
         /\ analysisRecords[i].screenOpenCount
              = Len(EventsOf(autoAssignmentIndex[i].v.email))
         /\ \A j \in 1..Len(analysisRecords) :
              analysisRecords[i].userEmail = analysisRecords[j].userEmail
              => /\ analysisRecords[i].firstScreenOpenTime
                      = analysisRecords[j].firstScreenOpenTime
                 /\ analysisRecords[i].screenOpenCount
                      = analysisRecords[j].screenOpenCount

\* two tasks auto-assigned to one user who has a single ScreenOpen event,
\* without a timestamp: a row for each task, both with the count 1
C20_Witness ==
  /\ AnalysisReturned
  /\ Len(analysisRecords) = 2
  /\ analysisRecords[1].taskId # analysisRecords[2].taskId
  /\ analysisRecords[1].userEmail = Email
  /\ analysisRecords[2].userEmail = Email
  /\ EventsOf(Email) = << Null >>
  /\ analysisRecords[1].screenOpenCount = 1
  /\ analysisRecords[2].screenOpenCount = 1

\* the e-mail generateReport resolved for a task: the login e-mail of the
\* first TaskActions entry of a task that has one, else the e-mail of its
\* AutoAssignment record if it has one, else none (the user is Unknown)
ResolvedEmail(taskId) ==
  IF taskId \in KeysOf(taskActionIndex)
  THEN << EntryOf(taskActionIndex, taskId).v[1].loginEmail >>
  ELSE IF taskId \in KeysOf(autoAssignmentIndex)
          /\ EntryOf(autoAssignmentIndex, taskId).v.email
               \notin {EmptyString, Undefined, JsNull}
       THEN << EntryOf(autoAssignmentIndex, taskId).v.email >>
       ELSE <<>>

\* the record shows the looked-up name and the e-mail, or the e-mail twice
\* when the Users index does not have it
ShowsLookedUp(r, email) ==
  IF email \in KeysOf(userIndex)
  THEN r.userName = EntryOf(userIndex, email).v /\ r.userEmail = email
  ELSE r.userName = email /\ r.userEmail = email

\* a display name that holds a space followed by an opening parenthesis
HasParenthesis(displayName) ==
  \E i \in 1..Len(displayName) : displayName[i] = " ("

\* C21: the split of the resolved user into name and e-mail recovers what was
\* looked up: for a resolved e-mail e that is a key of the Users index with
\* display name d (also a display name that holds a space followed by an
\* opening parenthesis) the record has userName = d and userEmail = e; for a
\* resolved e-mail that is not in the Users index both are that e-mail.  The
\* code splits at the first " (" of the text, which can be inside the name.
C21_SplitRecoversLookup ==
  Returned =>
    \A r \in Records :
      ResolvedEmail(r.task) # <<>> => ShowsLookedUp(r, ResolvedEmail(r.task)[1])

\* what holds of the users whose display name has no " ("
C21_WhenNameIsPlain ==
  Returned =>
    \A r \in Records :
      /\ ResolvedEmail(r.task) # <<>>
      /\ ResolvedEmail(r.task)[1] \in KeysOf(userIndex)
           => ~HasParenthesis(EntryOf(userIndex, ResolvedEmail(r.task)[1]).v)
      => ShowsLookedUp(r, ResolvedEmail(r.task)[1])

\* the instant a text of a record denotes, null for the empty text
InstantOf(text) == IF text = EmptyString THEN Null ELSE newDate(text)

\* C22: the two derived metrics of a report record agree with the timestamps
\* the record shows: waitingTime, recomputed from the indexes, is the elapsed
\* minutes of the instants its createdTime and assignedTime texts denote (null
\* when one is empty), and productiveTime and waitingTime use the same
\* assigned instant, no index changing between the two passes.
C22_MetricsAgreeWithTexts ==
  Returned =>
    \A r \in Records :
      /\ r.waitingTime =
           IF r.createdTime = EmptyString \/ r.assignedTime = EmptyString
           THEN Null
           ELSE Minutes(WholeMinutes(Ms(newDate(r.createdTime)),
                                     Ms(newDate(r.assignedTime))))
      /\ InstantOf(r.assignedTime) = getAssignedTime(r.task)
      /\ InstantOf(r.createdTime) = getCreatedTime(r.task)

\* a task created at 00:01:30, assigned at 00:03:20 and completed: it waited
\* one minute, and has a productive time from the same assigned instant
C22_Witness ==
  /\ Returned
  /\ \E r \in Records :
       /\ r.createdTime = toISOString(Date(90000))
       /\ r.assignedTime = toISOString(Date(200000))
       /\ r.makerCompleteTime # EmptyString
       /\ r.waitingTime = Minutes(1)
       /\ r.productiveTime # Null

====
